---- MODULE Spec2Model ----
(***************************************************************************)
(* Model of x/ibc/20-transfer/types/msgs.go: the two sdk.Msg value types   *)
(* MsgTransfer and MsgRecvPacket, their constructors, ValidateBasic and    *)
(* GetSigners.  A run constructs one message and then calls ValidateBasic  *)
(* and GetSigners on it, in either order.                                  *)
(*                                                                         *)
(* Go values are modelled by what the code can observe of them:            *)
(*   - a slice ([]byte, sdk.AccAddress, []commitment.Proof) is a record    *)
(*     [isNil, elems]: a nil slice and an empty non-nil slice differ;      *)
(*   - a string identifier is [len, chars]: its length and whether all its *)
(*     characters are in the identifier alphabet;                          *)
(*   - an error is [codespace, code, msg]: msg is the chain of             *)
(*     descriptions, outermost first; the nil error has code "nil";        *)
(*   - the result of a call is [err, line]: the value returned and the     *)
(*     source line of the return statement that produced it.  A run-time   *)
(*     panic is the result whose err is Panic.                             *)
(***************************************************************************)
EXTENDS Integers, Sequences, FiniteSets

VARIABLES msg, result, signers, pc

vars == <<msg, result, signers, pc>>

(***************************************************************************)
(* Bounds of the model.                                                    *)
(***************************************************************************)
MaxCoins == 2
MaxProofs == 2
MaxHeight == 2

(***************************************************************************)
(* Go slices.                                                              *)
(***************************************************************************)
NilSlice == [isNil |-> TRUE, elems |-> <<>>]

Slice(s) == [isNil |-> FALSE, elems |-> s]

SeqsUpTo(S, n) == UNION {[1..k -> S] : k \in 0..n}

(***************************************************************************)
(* sdk.Error values.                                                       *)
(***************************************************************************)
NilError == [codespace |-> "", code |-> "nil", msg |-> <<>>]

Panic == [codespace |-> "runtime", code |-> "panic",
          msg |-> <<"invalid memory address or nil pointer dereference">>]

SdkError(code, m) == [codespace |-> "sdk", code |-> code, msg |-> <<m>>]

ErrInvalidCoins(m) == SdkError("InvalidCoins", m)

ErrInsufficientCoins(m) == SdkError("InsufficientCoins", m)

ErrInvalidAddress(m) == SdkError("InvalidAddress", m)

ErrInvalidHeight(codespace, m) ==
    [codespace |-> codespace, code |-> "InvalidHeight", msg |-> <<m>>]

ErrInvalidProof(codespace, m) ==
    [codespace |-> codespace, code |-> "InvalidProof", msg |-> <<m>>]

DefaultCodespace == "transfer"

\* sdkerrors.Wrap: same kind, one more description in front.
Wrap(err, description) == [err EXCEPT !.msg = <<description>> \o @]

\* sdk.ConvertError: nil stays nil, an error keeps its kind and message.
ConvertError(err) == err

Return(err, line) == [err |-> err, line |-> line]

(***************************************************************************)
(* 24-host identifier validators.  The package is not part of msgs.go; the *)
(* validators are modelled by their contract: an identifier is valid when  *)
(* its characters are in the identifier alphabet and its length is within  *)
(* the validator's bounds.  Port identifiers may be shorter (from          *)
(* MinPortLen) than client, connection and channel identifiers (from       *)
(* MinIdLen).                                                              *)
(***************************************************************************)
MinPortLen == 2
MinIdLen == 10
MaxIdLen == 20

ErrInvalidID == [codespace |-> "ibc", code |-> "InvalidID", msg |-> <<"invalid identifier">>]

defaultIdentifierValidator(id, min, max) ==
    IF ~id.chars THEN ErrInvalidID
    ELSE IF id.len < min \/ id.len > max THEN ErrInvalidID
    ELSE NilError

DefaultClientIdentifierValidator(id) == defaultIdentifierValidator(id, MinIdLen, MaxIdLen)

DefaultConnectionIdentifierValidator(id) == defaultIdentifierValidator(id, MinIdLen, MaxIdLen)

DefaultChannelIdentifierValidator(id) == defaultIdentifierValidator(id, MinIdLen, MaxIdLen)

DefaultPortIdentifierValidator(id) == defaultIdentifierValidator(id, MinPortLen, MaxIdLen)

(***************************************************************************)
(* sdk.Coins: a sequence of [Denom, Amount].  The two predicates are       *)
(* modelled by their contract: well-formed is no duplicate denomination    *)
(* and no negative quantity; all-positive is every quantity above zero.    *)
(***************************************************************************)
CoinsIsValid(coins) ==
    /\ \A i, j \in 1..Len(coins) : i # j => coins[i].Denom # coins[j].Denom
    /\ \A i \in 1..Len(coins) : coins[i].Amount >= 0

CoinsIsAllPositive(coins) == \A i \in 1..Len(coins) : coins[i].Amount > 0

(***************************************************************************)
(* sdk.AccAddress.                                                         *)
(***************************************************************************)
AddrLen == 20

AddrEmpty(aa) == aa.isNil \/ Len(aa.elems) = 0

(***************************************************************************)
(* channelexported.PacketI: an interface value.  It is nil, or it holds a  *)
(* packet, of which this code observes only what its ValidateBasic method  *)
(* returns.                                                                *)
(***************************************************************************)
NilPacket == [isNil |-> TRUE, verdict |-> NilError]

ErrInvalidPacket == [codespace |-> "channel", code |-> "InvalidPacket", msg |-> <<"invalid packet">>]

PacketValidateBasic(packet) == packet.verdict

(***************************************************************************)
(* The messages.                                                           *)
(***************************************************************************)
NoMsg == [type |-> "none"]

NoResult == Return(NilError, 0)

NoSigners == NilSlice

\* NewMsgTransfer, msgs.go:23-34
MsgTransfer(sourcePort, sourceChannel, amount, sender, receiver, source) ==
    [type |-> "transfer",
     SourcePort |-> sourcePort,
     SourceChannel |-> sourceChannel,
     Amount |-> amount,
     Sender |-> sender,
     Receiver |-> receiver,
     Source |-> source]

(***************************************************************************)
(* Faulty variants of MsgTransfer.ValidateBasic, to test the properties.   *)
(***************************************************************************)
\* The all-positive check moved in front of the well-formedness check.
MsgTransferValidateBasic_PositiveFirst(m) ==
    LET portErr == DefaultConnectionIdentifierValidator(m.SourcePort)
        chanErr == DefaultClientIdentifierValidator(m.SourceChannel)
    IN  IF portErr # NilError
          THEN Return(ConvertError(Wrap(portErr, "invalid source port ID")), 49)
        ELSE IF chanErr # NilError
          THEN Return(ConvertError(Wrap(chanErr, "invalid source channel ID")), 52)
        ELSE IF ~CoinsIsAllPositive(m.Amount)
          THEN Return(ErrInsufficientCoins("transfer amount must be positive"), 58)
        ELSE IF ~CoinsIsValid(m.Amount)
          THEN Return(ErrInvalidCoins("transfer amount is invalid"), 55)
        ELSE IF AddrEmpty(m.Sender)
          THEN Return(ErrInvalidAddress("missing sender address"), 61)
        ELSE IF AddrEmpty(m.Receiver)
          THEN Return(ErrInvalidAddress("missing recipient address"), 64)
        ELSE Return(NilError, 66)

\* The receiver check reporting the sender's message.
MsgTransferValidateBasic_SenderMessageTwice(m) ==
    LET portErr == DefaultConnectionIdentifierValidator(m.SourcePort)
        chanErr == DefaultClientIdentifierValidator(m.SourceChannel)
    IN  IF portErr # NilError
          THEN Return(ConvertError(Wrap(portErr, "invalid source port ID")), 49)
        ELSE IF chanErr # NilError
          THEN Return(ConvertError(Wrap(chanErr, "invalid source channel ID")), 52)
        ELSE IF ~CoinsIsValid(m.Amount)
          THEN Return(ErrInvalidCoins("transfer amount is invalid"), 55)
        ELSE IF ~CoinsIsAllPositive(m.Amount)
          THEN Return(ErrInsufficientCoins("transfer amount must be positive"), 58)
        ELSE IF AddrEmpty(m.Sender)
          THEN Return(ErrInvalidAddress("missing sender address"), 61)
        ELSE IF AddrEmpty(m.Receiver)
          THEN Return(ErrInvalidAddress("missing sender address"), 64)
        ELSE Return(NilError, 66)

\* MsgTransfer.ValidateBasic, msgs.go:47-67
MsgTransferValidateBasic(m) ==
    LET portErr == DefaultConnectionIdentifierValidator(m.SourcePort)
        chanErr == DefaultClientIdentifierValidator(m.SourceChannel)
    IN  IF portErr # NilError
          THEN Return(ConvertError(Wrap(portErr, "invalid source port ID")), 49)
        ELSE IF chanErr # NilError
          THEN Return(ConvertError(Wrap(chanErr, "invalid source channel ID")), 52)
        ELSE IF ~CoinsIsValid(m.Amount)
          THEN Return(ErrInvalidCoins("transfer amount is invalid"), 55)
        ELSE IF ~CoinsIsAllPositive(m.Amount)
          THEN Return(ErrInsufficientCoins("transfer amount must be positive"), 58)
        ELSE IF AddrEmpty(m.Sender)
          THEN Return(ErrInvalidAddress("missing sender address"), 61)
        ELSE IF AddrEmpty(m.Receiver)
          THEN Return(ErrInvalidAddress("missing recipient address"), 64)
        ELSE Return(NilError, 66)

\* A faulty variant of MsgTransfer.GetSigners: the receiver signs.
MsgTransferGetSigners_Receiver(m) == Slice(<<m.Receiver>>)

\* MsgTransfer.GetSigners, msgs.go:75-77
MsgTransferGetSigners(m) == Slice(<<m.Sender>>)

\* NewMsgRecvPacket, msgs.go:87-94
MsgRecvPacket(packet, proofs, height, signer) ==
    [type |-> "recv_packet",
     Packet |-> packet,
     Proofs |-> proofs,
     Height |-> height,
     Signer |-> signer]

(***************************************************************************)
(* Faulty variants of MsgRecvPacket.ValidateBasic, to test the properties. *)
(***************************************************************************)
\* The height check moved behind the check of the proofs sequence.
MsgRecvPacketValidateBasic_HeightLate(m) ==
    IF m.Proofs.isNil \/ Len(m.Proofs.elems) = 0
      THEN Return(ConvertError(ErrInvalidProof(DefaultCodespace, "missing proofs")), 113)
    ELSE IF m.Height = 0
      THEN Return(ConvertError(ErrInvalidHeight(DefaultCodespace, "height must be > 0")), 109)
    ELSE IF \E i \in 1..Len(m.Proofs.elems) : m.Proofs.elems[i].Proof.isNil
      THEN Return(ConvertError(ErrInvalidProof(DefaultCodespace, "cannot submit an empty proof")), 118)
    ELSE IF AddrEmpty(m.Signer)
      THEN Return(ErrInvalidAddress("missing signer address"), 123)
    ELSE IF m.Packet.isNil
      THEN Return(Panic, 126)
    ELSE Return(ConvertError(PacketValidateBasic(m.Packet)), 126)

\* Only a nil proofs slice counts as missing, not one of length zero.
MsgRecvPacketValidateBasic_NilProofsOnly(m) ==
    IF m.Height = 0
      THEN Return(ConvertError(ErrInvalidHeight(DefaultCodespace, "height must be > 0")), 109)
    ELSE IF m.Proofs.isNil
      THEN Return(ConvertError(ErrInvalidProof(DefaultCodespace, "missing proofs")), 113)
    ELSE IF \E i \in 1..Len(m.Proofs.elems) : m.Proofs.elems[i].Proof.isNil
      THEN Return(ConvertError(ErrInvalidProof(DefaultCodespace, "cannot submit an empty proof")), 118)
    ELSE IF AddrEmpty(m.Signer)
      THEN Return(ErrInvalidAddress("missing signer address"), 123)
    ELSE IF m.Packet.isNil
      THEN Return(Panic, 126)
    ELSE Return(ConvertError(PacketValidateBasic(m.Packet)), 126)

\* MsgRecvPacket.ValidateBasic, msgs.go:107-127
MsgRecvPacketValidateBasic(m) ==
    IF m.Height = 0
      THEN Return(ConvertError(ErrInvalidHeight(DefaultCodespace, "height must be > 0")), 109)
    ELSE IF m.Proofs.isNil \/ Len(m.Proofs.elems) = 0
      THEN Return(ConvertError(ErrInvalidProof(DefaultCodespace, "missing proofs")), 113)
    ELSE IF \E i \in 1..Len(m.Proofs.elems) : m.Proofs.elems[i].Proof.isNil
      THEN Return(ConvertError(ErrInvalidProof(DefaultCodespace, "cannot submit an empty proof")), 118)
    ELSE IF AddrEmpty(m.Signer)
      THEN Return(ErrInvalidAddress("missing signer address"), 123)
    ELSE IF m.Packet.isNil
      THEN Return(Panic, 126)
    ELSE Return(ConvertError(PacketValidateBasic(m.Packet)), 126)

\* MsgRecvPacket.GetSigners, msgs.go:135-137
MsgRecvPacketGetSigners(m) == Slice(<<m.Signer>>)

(***************************************************************************)
(* The values the callers supply.                                          *)
(***************************************************************************)
Identifier(len, chars) == [len |-> len, chars |-> chars]

\* "transfer" has 8 characters, "channel-0" has 9.
PortLens == {MinPortLen - 1, MinPortLen, 8, MinIdLen, MaxIdLen, MaxIdLen + 1}

ChannelLens == {9, MinIdLen, MaxIdLen, MaxIdLen + 1}

Ports == {Identifier(l, TRUE) : l \in PortLens} \union {Identifier(MinIdLen, FALSE)}

Channels == {Identifier(l, TRUE) : l \in ChannelLens} \union {Identifier(MinIdLen, FALSE)}

Denoms == {"atom", "btc"}

Quantities == {-1, 0, 100}

Coin(denom, amount) == [Denom |-> denom, Amount |-> amount]

CoinValues == {Coin(d, q) : d \in Denoms, q \in Quantities}

Amounts == SeqsUpTo(CoinValues, MaxCoins)

Address(b) == Slice([i \in 1..AddrLen |-> b])

AddrA == Address(1)

AddrB == Address(2)

AddrC == Address(3)

Senders == {NilSlice, Slice(<<>>), AddrA}

Receivers == {NilSlice, Slice(<<>>), AddrB}

Signers == {NilSlice, Slice(<<>>), AddrC}

Packet(verdict) == [isNil |-> FALSE, verdict |-> verdict]

Packets == {NilPacket, Packet(NilError), Packet(ErrInvalidPacket)}

Proof(bytes) == [Proof |-> bytes]

ProofValues == {Proof(NilSlice), Proof(Slice(<<>>)), Proof(Slice(<<1>>))}

ProofLists == {NilSlice} \union {Slice(s) : s \in SeqsUpTo(ProofValues, MaxProofs)}

Heights == 0..MaxHeight

(***************************************************************************)
(* The state machine.                                                      *)
(***************************************************************************)
Init ==
    /\ msg = NoMsg
    /\ result = NoResult
    /\ signers = NoSigners
    /\ pc = "new"

NewMsgTransfer ==
    /\ pc = "new"
    /\ \E sourcePort \in Ports, sourceChannel \in Channels, amount \in Amounts,
          sender \in Senders, receiver \in Receivers, source \in BOOLEAN :
            msg' = MsgTransfer(sourcePort, sourceChannel, amount, sender, receiver, source)
    /\ pc' = "built"
    /\ UNCHANGED <<result, signers>>

NewMsgRecvPacket ==
    /\ pc = "new"
    /\ \E packet \in Packets, proofs \in ProofLists, height \in Heights, signer \in Signers :
            msg' = MsgRecvPacket(packet, proofs, height, signer)
    /\ pc' = "built"
    /\ UNCHANGED <<result, signers>>

TransferValidateBasic ==
    /\ pc = "built"
    /\ msg.type = "transfer"
    /\ result = NoResult
    /\ result' = MsgTransferValidateBasic(msg)
    /\ UNCHANGED <<msg, signers, pc>>

TransferGetSigners ==
    /\ pc = "built"
    /\ msg.type = "transfer"
    /\ signers = NoSigners
    /\ signers' = MsgTransferGetSigners(msg)
    /\ UNCHANGED <<msg, result, pc>>

RecvPacketValidateBasic ==
    /\ pc = "built"
    /\ msg.type = "recv_packet"
    /\ result = NoResult
    /\ result' = MsgRecvPacketValidateBasic(msg)
    /\ UNCHANGED <<msg, signers, pc>>

RecvPacketGetSigners ==
    /\ pc = "built"
    /\ msg.type = "recv_packet"
    /\ signers = NoSigners
    /\ signers' = MsgRecvPacketGetSigners(msg)
    /\ UNCHANGED <<msg, result, pc>>

Next ==
    \/ NewMsgTransfer
    \/ NewMsgRecvPacket
    \/ TransferValidateBasic
    \/ TransferGetSigners
    \/ RecvPacketValidateBasic
    \/ RecvPacketGetSigners

Spec == Init /\ [][Next]_vars

(***************************************************************************)
(* Vocabulary of the properties.                                           *)
(***************************************************************************)
TransferValidated == msg.type = "transfer" /\ result # NoResult

RecvPacketValidated == msg.type = "recv_packet" /\ result # NoResult

Failed == result.err # NilError /\ result.err # Panic

Kind(err) == <<err.codespace, err.code>>

\* The checks as the specification words them.
PortSyntaxOk(m) == DefaultPortIdentifierValidator(m.SourcePort) = NilError

ChannelSyntaxOk(m) == DefaultChannelIdentifierValidator(m.SourceChannel) = NilError

DenomUnique(coins) ==
    \A i, j \in 1..Len(coins) : i # j => coins[i].Denom # coins[j].Denom

AllPositive(coins) == \A i \in 1..Len(coins) : coins[i].Amount > 0

HasNonPositive(coins) == \E i \in 1..Len(coins) : coins[i].Amount <= 0

HasNegative(coins) == \E i \in 1..Len(coins) : coins[i].Amount < 0

ProofsEmpty(m) == m.Proofs.isNil \/ Len(m.Proofs.elems) = 0

ProofBytesEmpty(proof) == proof.Proof.isNil \/ Len(proof.Proof.elems) = 0

HasEmptyProof(m) == \E i \in 1..Len(m.Proofs.elems) : ProofBytesEmpty(m.Proofs.elems[i])

\* C1: a TransferMessage with a syntactically valid port and channel, a
\* denomination-unique amount of strictly positive quantities and non-empty
\* sender and receiver passes validateBasic(), whatever isSource is.
C1_ValidTransferSucceeds ==
    (/\ TransferValidated
     /\ PortSyntaxOk(msg)
     /\ ChannelSyntaxOk(msg)
     /\ DenomUnique(msg.Amount)
     /\ AllPositive(msg.Amount)
     /\ ~AddrEmpty(msg.Sender)
     /\ ~AddrEmpty(msg.Receiver))
    => result.err = NilError

ExpectedTransferLine(m) ==
    IF ~PortSyntaxOk(m) THEN 49
    ELSE IF ~ChannelSyntaxOk(m) THEN 52
    ELSE IF ~CoinsIsValid(m.Amount) THEN 55
    ELSE IF ~CoinsIsAllPositive(m.Amount) THEN 58
    ELSE IF AddrEmpty(m.Sender) THEN 61
    ELSE IF AddrEmpty(m.Receiver) THEN 64
    ELSE 66

\* C3: TransferMessage.validateBasic() returns the error of the first failing
\* check in the order port syntax, channel syntax, amount well-formed, amount
\* positive, sender, receiver, and succeeds only when all six pass.
C3_TransferFailFast ==
    TransferValidated =>
        /\ result.line = ExpectedTransferLine(msg)
        /\ result.err = NilError <=> result.line = 66

\* C4: a PacketReceiptMessage with height 0 fails with the invalid-height
\* kind, whatever its packet (even absent), proofs and signer are.
C4_ZeroHeight ==
    (RecvPacketValidated /\ msg.Height = 0) =>
        /\ result.line = 109
        /\ Kind(result.err) = <<DefaultCodespace, "InvalidHeight">>

C4_Witness ==
    /\ RecvPacketValidated
    /\ msg.Height = 0
    /\ msg.Packet.isNil
    /\ ~ProofsEmpty(msg)
    /\ ~HasEmptyProof(msg)
    /\ ~AddrEmpty(msg.Signer)

\* C5 as stated: a PacketReceiptMessage with an empty proofs sequence (absent
\* or of length zero) always fails with the missing-proof error.
C5_EmptyProofsAlways ==
    (RecvPacketValidated /\ ProofsEmpty(msg)) =>
        result.err = ErrInvalidProof(DefaultCodespace, "missing proofs")

\* C5 as amended: a PacketReceiptMessage with height > 0 and an empty proofs
\* sequence (absent or of length zero) fails with the missing-proof error.
C5_EmptyProofs ==
    (RecvPacketValidated /\ msg.Height > 0 /\ ProofsEmpty(msg)) =>
        /\ result.line = 113
        /\ result.err = ErrInvalidProof(DefaultCodespace, "missing proofs")

C5_Witness ==
    /\ RecvPacketValidated
    /\ msg.Height > 0
    /\ ~msg.Proofs.isNil
    /\ Len(msg.Proofs.elems) = 0
    /\ result.line = 113

\* C6: with height > 0 and a non-empty proofs sequence, one entry whose proof
\* bytes are empty (absent, or present with length zero) is enough for the
\* empty-proof error.
C6_EmptyProofEntry ==
    (/\ RecvPacketValidated
     /\ msg.Height > 0
     /\ ~ProofsEmpty(msg)
     /\ HasEmptyProof(msg))
    => result.err = ErrInvalidProof(DefaultCodespace, "cannot submit an empty proof")

\* The return statement the five checks of the specification lead to.
ExpectedRecvPacketLine(m) ==
    IF m.Height = 0 THEN 109
    ELSE IF ProofsEmpty(m) THEN 113
    ELSE IF HasEmptyProof(m) THEN 118
    ELSE IF AddrEmpty(m.Signer) THEN 123
    ELSE 126

\* C7: PacketReceiptMessage.validateBasic() returns the error of the first
\* failing check in the order height, proofs non-empty, every proof non-empty,
\* signer; when all four pass the result is the packet's own result.
C7_RecvPacketFailFast ==
    RecvPacketValidated =>
        /\ result.line = ExpectedRecvPacketLine(msg)
        /\ result.line = 126 =>
              /\ ~msg.Packet.isNil
              /\ result.err = PacketValidateBasic(msg.Packet)

\* C8: validateBasic() on either message returns a value, success or a typed
\* error, and never aborts.
C8_NeverAborts ==
    (TransferValidated \/ RecvPacketValidated) => result.err # Panic

(***************************************************************************)
(* Messages to compare a result with: one or more for every return         *)
(* statement of the two ValidateBasic methods.                             *)
(***************************************************************************)
ProbeIdentifiers == {Identifier(MinIdLen, TRUE), Identifier(MinIdLen, FALSE)}

ProbeAmounts == {<<Coin("atom", 100)>>, <<Coin("atom", 0)>>, <<Coin("atom", -1)>>}

TransferProbes ==
    {MsgTransfer(p, c, a, s, r, TRUE) :
        p \in ProbeIdentifiers, c \in ProbeIdentifiers, a \in ProbeAmounts,
        s \in {NilSlice, AddrA}, r \in {NilSlice, AddrB}}

RecvPacketProbes ==
    {MsgRecvPacket(Packet(NilError), pr, h, s) :
        pr \in {NilSlice, Slice(<<Proof(NilSlice)>>), Slice(<<Proof(Slice(<<1>>))>>)},
        h \in {0, 1}, s \in {NilSlice, AddrC}}

\* The results validateBasic() gives on the messages of the type of msg.
ProbeResults ==
    IF msg.type = "transfer"
      THEN {MsgTransferValidateBasic(m) : m \in TransferProbes}
      ELSE {MsgRecvPacketValidateBasic(m) : m \in RecvPacketProbes}

\* The return statements of the checks of the message's own fields.
CheckLines == {49, 52, 55, 58, 61, 64, 109, 113, 118, 123}

OtherChecks == {r \in ProbeResults : r.line \in CheckLines /\ r.line # result.line}

\* The checks whose errors are built by the same constructor, and the two
\* checks whose error kind is the one the identifier validator returns.
SameKindLines == {{61, 64}, {113, 118}}

ValidatorKindLines == {49, 52}

SameKind(l1, l2) == l1 = l2 \/ \E g \in SameKindLines : l1 \in g /\ l2 \in g

Authorizer(m) == IF m.type = "transfer" THEN m.Sender ELSE m.Signer

\* C10: signers() returns exactly one address, the sender of a TransferMessage
\* and the signer of a PacketReceiptMessage, valid message or not, empty address
\* or not, and the call changes no field of the message.
C10_Signers ==
    [][signers' # signers =>
          /\ msg' = msg
          /\ ~signers'.isNil
          /\ signers'.elems = <<Authorizer(msg)>>]_vars

C10_Witness ==
    /\ signers # NoSigners
    /\ TransferValidated
    /\ Failed
    /\ AddrEmpty(msg.Sender)
    /\ ~AddrEmpty(msg.Receiver)
====
